---- MODULE Spec2Model ----
(***************************************************************************)
(* Model of pybamm/discretisations/base_mesh.py: the class BaseMesh.       *)
(*                                                                         *)
(* A mesh object is its instance dictionary (attribute name -> value).     *)
(* The constructor stores one attribute, "time", the result of             *)
(* np.linspace(0, tend, tsteps).  The four properties negative_electrode,  *)
(* separator, positive_electrode and whole_cell load the private           *)
(* attributes _negative_electrode, _separator, _positive_electrode and     *)
(* _whole_cell; they have a getter and no setter.                          *)
(*                                                                         *)
(* Numbers: time values are exact rationals <<n, d>> in lowest terms with  *)
(* d > 0.  Floating-point rounding and the non-finite values (inf, nan)    *)
(* are not modelled; tend ranges over finite values.                       *)
(***************************************************************************)
EXTENDS Integers, Sequences, FiniteSets, TLC

VARIABLES meshes, last, nreads

vars == <<meshes, last, nreads>>

----------------------------------------------------------------------------
(* Bounds of the model.                                                    *)

\* explicit tsteps arguments range over -1 .. MaxSteps (and the value 100)
MaxSteps == 3

\* explicit tend arguments are n/d with n in -1 .. MaxTend and d in {1, 2}
MaxTend == 1

\* number of property reads followed in one run
MaxReads == 3

\* number of distinct families of subdomain objects an initialisation may store
NSubdomainSets == 2

----------------------------------------------------------------------------
(* Defaults of the constructor's signature.                                *)

target_npts_default == 10

\* the two integer defaults confused
tsteps_default_swapped == target_npts_default

tsteps_default == 100

tend_default == 1

----------------------------------------------------------------------------
(* Exact rational arithmetic.                                              *)

Abs(x) == IF x < 0 THEN -x ELSE x

RECURSIVE GCD(_, _)
GCD(a, b) == IF b = 0 THEN a ELSE GCD(b, a % b)

\* n/d in lowest terms with a positive denominator (d # 0)
Rat(n, d) ==
    LET g == GCD(Abs(n), Abs(d))
        s == IF d < 0 THEN -1 ELSE 1
    IN  <<(s * n) \div g, (s * d) \div g>>

FromInt(i) == <<i, 1>>

RAdd(a, b) == Rat(a[1] * b[2] + b[1] * a[2], a[2] * b[2])

RSub(a, b) == Rat(a[1] * b[2] - b[1] * a[2], a[2] * b[2])

RMul(a, b) == Rat(a[1] * b[1], a[2] * b[2])

\* a / k for an integer k # 0
RDivInt(a, k) == Rat(a[1], a[2] * k)

Zero == FromInt(0)

----------------------------------------------------------------------------
(* np.linspace(start, stop, num) with endpoint=True, as NumPy computes it. *)

\* num < 0 raises ValueError("Number of samples, %s, must be non-negative.")
linspace_rejects_lenient(num) == FALSE

linspace_rejects(num) == num < 0

\* div = (num - 1) if endpoint else num
linspace_div_noendpoint(num) == num

linspace_div(num) == num - 1

\* y = arange(0, num): the values 0, 1, ..., num-1
arange_short(num) == [i \in 1..(num - 1) |-> FromInt(i - 1)]

arange(num) == [i \in 1..num |-> FromInt(i - 1)]

\* if endpoint and num > 1: y[-1] = stop
linspace_setlast_always(y, stop, num) ==
    IF num > 0 THEN [y EXCEPT ![num] = stop] ELSE y

linspace_setlast(y, stop, num) ==
    IF num > 1 THEN [y EXCEPT ![num] = stop] ELSE y

\* one entry k of y after the scaling step:
\*   if div > 0: step = delta / div
\*       if step == 0: y /= div; y = y * delta   else: y = y * step
\*   else: y = y * delta
linspace_scale(k, delta, div) ==
    IF div > 0
    THEN LET step == RDivInt(delta, div)
         IN  IF step = Zero
             THEN RMul(RDivInt(k, div), delta)
             ELSE RMul(k, step)
    ELSE RMul(k, delta)

linspace(start, stop, num) ==
    IF linspace_rejects(num)
    THEN [error |-> "ValueError", value |-> <<>>]
    ELSE
      LET div   == linspace_div(num)
          delta == RSub(stop, start)
          \* y = arange(0, num); y = scaled y; y += start (elementwise)
          y0    == arange(num)
          y     == [i \in DOMAIN y0 |->
                       RAdd(linspace_scale(y0[i], delta, div), start)]
      IN  [error |-> "none", value |-> linspace_setlast(y, stop, num)]

----------------------------------------------------------------------------
(* Python object semantics used by the class.                              *)

PropertyNames ==
    {"negative_electrode", "separator", "positive_electrode", "whole_cell"}

Backing(name) == "_" \o name

NoObject == <<0, "none">>

\* the subdomain object of family s for the property `name`
Subdomain(s, name) == <<s, name>>

\* self.<attr>: a plain instance-dictionary load; a missing attribute raises
\* AttributeError.  The load leaves the object as it is.
Load_pop(self, attr) ==
    IF attr \in DOMAIN self
    THEN [self  |-> [a \in (DOMAIN self) \ {attr} |-> self[a]],
          value |-> self[attr], error |-> "none"]
    ELSE [self |-> self, value |-> NoObject, error |-> "AttributeError"]

Load(self, attr) ==
    IF attr \in DOMAIN self
    THEN [self |-> self, value |-> self[attr], error |-> "none"]
    ELSE [self |-> self, value |-> NoObject, error |-> "AttributeError"]

\* self.<attr> = value: attr is stored in the instance dictionary
Store(self, attr, value) ==
    [a \in (DOMAIN self) \cup {attr} |-> IF a = attr THEN value ELSE self[a]]

\* obj.<name> = value from outside: a property without a setter is a data
\* descriptor on the class and rejects the assignment with AttributeError;
\* any other name is stored in the instance dictionary.
SetAttr_nodescriptor(self, name, value) ==
    [self |-> Store(self, name, value), error |-> "none"]

SetAttr(self, name, value) ==
    IF name \in PropertyNames
    THEN [self |-> self, error |-> "AttributeError"]
    ELSE [self |-> Store(self, name, value), error |-> "none"]

----------------------------------------------------------------------------
(* class BaseMesh                                                          *)

\* def __init__(self, param, target_npts=10, tsteps=100, tend=1):
\*     self.time = np.linspace(0, tend, tsteps)
\* `self` is the fresh object (empty dictionary); when linspace raises, the
\* assignment is not executed and the exception leaves the constructor.
BaseMesh_init_npts(self, param, target_npts, tsteps, tend) ==
    LET t == linspace(Zero, tend, target_npts)
    IN  IF t.error # "none"
        THEN [self |-> self, error |-> t.error]
        ELSE [self |-> Store(self, "time", t.value), error |-> "none"]

BaseMesh_init(self, param, target_npts, tsteps, tend) ==
    LET t == linspace(Zero, tend, tsteps)
    IN  IF t.error # "none"
        THEN [self |-> self, error |-> t.error]
        ELSE [self |-> Store(self, "time", t.value), error |-> "none"]

\* @property def negative_electrode(self): return self._negative_electrode
negative_electrode(self) == Load(self, "_negative_electrode")

\* @property def separator(self): return self._separator
separator_crossed(self) == Load(self, "_positive_electrode")

separator(self) == Load(self, "_separator")

\* @property def positive_electrode(self): return self._positive_electrode
positive_electrode(self) == Load(self, "_positive_electrode")

\* @property def whole_cell(self): return self._whole_cell
whole_cell(self) == Load(self, "_whole_cell")

\* obj.<name> for one of the four properties: the getter is called
GetProperty(self, name) ==
    CASE name = "negative_electrode" -> negative_electrode(self)
      [] name = "separator"          -> separator(self)
      [] name = "positive_electrode" -> positive_electrode(self)
      [] name = "whole_cell"         -> whole_cell(self)

----------------------------------------------------------------------------
(* Inputs.                                                                 *)

MeshIds == {1, 2}

Params == {"paramA", "paramB"}

TargetNptsValues == {5, 10}

TstepsValues == (-1 .. MaxSteps) \cup {100}

TendValues == {Rat(n, d) : n \in (-1) .. MaxTend, d \in {1, 2}}

\* an optional (keyword) argument: <<>> when left out, <<v>> when passed
NotGiven == <<>>

Opt(S) == {NotGiven} \cup {<<v>> : v \in S}

\* binding of a parameter that has a default
Bind(arg, default) == IF arg = NotGiven THEN default ELSE arg[1]

NoMesh ==
    [status |-> "none", param |-> "", target_npts |-> NotGiven,
     tsteps |-> NotGiven, tend |-> NotGiven, dict |-> <<>>, sub |-> 0]

NoOp == [op |-> "none", mesh |-> 0, name |-> "", result |-> NoObject,
         error |-> "none"]

----------------------------------------------------------------------------
(* State machine.                                                          *)

Init ==
    /\ meshes = [m \in MeshIds |-> NoMesh]
    /\ last = NoOp
    /\ nreads = 0

\* BaseMesh(param[, target_npts][, tsteps][, tend]); meshes are constructed
\* in the order of their ids, each once
Construct(m) ==
    /\ meshes[m].status = "none"
    /\ \A k \in MeshIds : k < m => meshes[k].status # "none"
    /\ \E param \in Params, npts \in Opt(TargetNptsValues),
          ts \in Opt(TstepsValues), te \in Opt(TendValues) :
          \E r \in {BaseMesh_init(<<>>, param,
                                   Bind(npts, target_npts_default),
                                   Bind(ts, tsteps_default),
                                   Bind(te, FromInt(tend_default)))} :
              /\ meshes' = [meshes EXCEPT ![m] =
                    [status |-> IF r.error = "none" THEN "built" ELSE "failed",
                     param |-> param, target_npts |-> npts, tsteps |-> ts,
                     tend |-> te, dict |-> r.self, sub |-> 0]]
              /\ last' = [op |-> "construct", mesh |-> m, name |-> "",
                          result |-> NoObject, error |-> r.error]
              /\ UNCHANGED nreads

\* the initialisation of a concrete mesh stores the four subdomain objects
\* in the private attributes, once
RECURSIVE StoreAll(_, _, _)
StoreAll(self, names, s) ==
    IF names = {} THEN self
    ELSE LET n == CHOOSE x \in names : TRUE
         IN  StoreAll(SetAttr(self, Backing(n), Subdomain(s, n)).self,
                      names \ {n}, s)

StoreSubdomains(m) ==
    /\ meshes[m].status = "built"
    /\ meshes[m].sub = 0
    /\ \E s \in 1..NSubdomainSets :
          /\ meshes' = [meshes EXCEPT ![m].dict = StoreAll(@, PropertyNames, s),
                                      ![m].sub = s]
          /\ last' = [op |-> "store", mesh |-> m, name |-> "",
                      result |-> NoObject, error |-> "none"]
          /\ UNCHANGED nreads

\* x = mesh.<name> for one of the four properties
Read(m) ==
    /\ meshes[m].status = "built"
    /\ nreads < MaxReads
    /\ \E name \in PropertyNames :
          LET r == GetProperty(meshes[m].dict, name)
          IN  /\ meshes' = [meshes EXCEPT ![m].dict = r.self]
              /\ last' = [op |-> "read", mesh |-> m, name |-> name,
                          result |-> r.value, error |-> r.error]
              /\ nreads' = nreads + 1

\* mesh.<name> = obj for one of the four properties
Assign(m) ==
    /\ meshes[m].status = "built"
    /\ \E name \in PropertyNames, s \in 1..NSubdomainSets :
          LET r == SetAttr(meshes[m].dict, name, Subdomain(s, name))
          IN  /\ meshes' = [meshes EXCEPT ![m].dict = r.self]
              /\ last' = [op |-> "assign", mesh |-> m, name |-> name,
                          result |-> NoObject, error |-> r.error]
              /\ UNCHANGED nreads

\* one mesh object through its life
Next ==
    \/ Construct(1)
    \/ StoreSubdomains(1)
    \/ Read(1)
    \/ Assign(1)

Spec == Init /\ [][Next]_vars

\* two constructions side by side
NextPair ==
    \/ Construct(1)
    \/ Construct(2)

SpecPair == Init /\ [][NextPair]_vars

----------------------------------------------------------------------------
(* Properties.                                                             *)

Built(m) == meshes[m].status = "built"

Constructed(m) == meshes[m].status # "none"

HasTime(m) == "time" \in DOMAIN meshes[m].dict

TimeOf(m) == meshes[m].dict["time"]

One == FromInt(1)

\* C1: a mesh constructed with an explicit tsteps >= 0 (and any tend) holds
\* a time sequence of exactly tsteps entries.
C1_TimeHasTstepsEntries ==
    \A m \in MeshIds :
        (Constructed(m) /\ meshes[m].tsteps # NotGiven
                        /\ meshes[m].tsteps[1] >= 0)
        => /\ Built(m)
           /\ HasTime(m)
           /\ DOMAIN TimeOf(m) = 1 .. meshes[m].tsteps[1]

C1_Witness ==
    \E m \in MeshIds :
        /\ Built(m)
        /\ meshes[m].tsteps = <<3>>
        /\ meshes[m].tend = <<Rat(-1, 2)>>
        /\ Len(TimeOf(m)) = 3

\* C2: for tsteps >= 2 the time sequence starts at 0, ends at tend, and
\* consecutive entries all differ by tend/(tsteps-1); for tsteps = 100 and
\* tend = 1 the first entry is 0, the last is 1 and the spacing is 1/99.
C2_EvenlySpaced ==
    \A m \in MeshIds :
        (Built(m) /\ meshes[m].tsteps # NotGiven /\ meshes[m].tend # NotGiven
                  /\ meshes[m].tsteps[1] >= 2)
        => LET n    == meshes[m].tsteps[1]
               tend == meshes[m].tend[1]
               t    == TimeOf(m)
           IN  /\ t[1] = Zero
               /\ t[n] = tend
               /\ \A i \in 1 .. (n - 1) :
                     RSub(t[i + 1], t[i]) = RDivInt(tend, n - 1)
               /\ (n = 100 /\ tend = One)
                  => /\ t[1] = <<0, 1>>
                     /\ t[100] = <<1, 1>>
                     /\ \A i \in 1 .. 99 : RSub(t[i + 1], t[i]) = <<1, 99>>

C2_Witness ==
    \E m \in MeshIds :
        /\ Built(m)
        /\ meshes[m].tsteps = <<100>>
        /\ meshes[m].tend = <<One>>
        /\ TimeOf(m)[2] = <<1, 99>>
        /\ TimeOf(m)[100] = <<1, 1>>

\* C3: for tsteps = 1 the time sequence has exactly one entry and it is 0,
\* whatever tend is.
C3_SingleStepIsZero ==
    \A m \in MeshIds :
        (Constructed(m) /\ meshes[m].tsteps = <<1>>)
        => /\ Built(m)
           /\ TimeOf(m) = <<Zero>>

C3_Witness ==
    \E m \in MeshIds :
        /\ Built(m)
        /\ meshes[m].tsteps = <<1>>
        /\ meshes[m].tend = <<One>>
        /\ TimeOf(m) = <<Zero>>

\* C4: once the subdomain objects have been stored, every read of an
\* accessor returns exactly the object stored for that accessor at
\* initialisation: the same object, not another subdomain's, however many
\* reads came before.
C4_AccessorReturnsOwnObject ==
    (last.op = "read" /\ meshes[last.mesh].sub # 0)
    => /\ last.error = "none"
       /\ last.result = Subdomain(meshes[last.mesh].sub, last.name)
       /\ last.result = meshes[last.mesh].dict[Backing(last.name)]

C4_Witness ==
    /\ last.op = "read"
    /\ last.name = "separator"
    /\ nreads = 3
    /\ meshes[last.mesh].sub = 2
    /\ last.result = Subdomain(2, "separator")

\* C5: on any mesh whose constructor has completed, reading an accessor
\* returns a stored subdomain reference and never fails.
C5_AccessorsNeverFail ==
    last.op = "read"
    => /\ last.error = "none"
       /\ last.result # NoObject

\* C6: an assignment through one of the four properties is rejected with an
\* error and leaves the stored references and the time sequence unchanged.
C6_AssignRejected ==
    [][last'.op = "assign"
       => /\ last'.error = "AttributeError"
          /\ meshes' = meshes]_vars

C6_Witness ==
    /\ last.op = "assign"
    /\ last.name = "separator"
    /\ last.error = "AttributeError"
    /\ meshes[last.mesh].sub = 1
    /\ meshes[last.mesh].dict["_separator"] = Subdomain(1, "separator")
    /\ "separator" \notin DOMAIN meshes[last.mesh].dict

\* C7: a construction that leaves out target_npts, tsteps and tend gives the
\* same time sequence as one passing target_npts = 10, tsteps = 100 and
\* tend = 1: 100 entries from 0 to 1.
AllDefaulted(m) ==
    /\ meshes[m].target_npts = NotGiven
    /\ meshes[m].tsteps = NotGiven
    /\ meshes[m].tend = NotGiven

AllExplicit(m) ==
    /\ meshes[m].target_npts = <<10>>
    /\ meshes[m].tsteps = <<100>>
    /\ meshes[m].tend = <<One>>

C7_DefaultsGiveSameTime ==
    \A a \in MeshIds :
        (Constructed(a) /\ AllDefaulted(a))
        => /\ Built(a)
           /\ DOMAIN TimeOf(a) = 1 .. 100
           /\ TimeOf(a)[1] = Zero
           /\ TimeOf(a)[100] = One
           /\ \A b \in MeshIds :
                 (Constructed(b) /\ AllExplicit(b))
                 => Built(b) /\ TimeOf(b) = TimeOf(a)

C7_Witness ==
    /\ Built(1) /\ AllDefaulted(1)
    /\ Built(2) /\ AllExplicit(2)
    /\ TimeOf(1) = TimeOf(2)
    /\ Len(TimeOf(1)) = 100

\* C8: a construction with a negative tsteps fails with the allocation's
\* error, stores no time sequence and yields no mesh; a construction with
\* tsteps >= 0 does not fail.
C8_NegativeTstepsFails ==
    \A m \in MeshIds :
        Constructed(m)
        => IF meshes[m].tsteps # NotGiven /\ meshes[m].tsteps[1] < 0
           THEN /\ meshes[m].status = "failed"
                /\ DOMAIN meshes[m].dict = {}
                /\ (last.op = "construct" /\ last.mesh = m)
                   => last.error = "ValueError"
           ELSE /\ Built(m)
                /\ HasTime(m)
                /\ (last.op = "construct" /\ last.mesh = m)
                   => last.error = "none"

C8_Witness ==
    /\ meshes[1].status = "failed"
    /\ meshes[1].tsteps = <<-1>>
    /\ last.op = "construct"
    /\ last.error = "ValueError"
    /\ ~HasTime(1)

\* C9: a read of an accessor changes neither the time sequence nor any of
\* the four stored references, so any sequence of reads leaves them as they
\* were.
C9_ReadsHaveNoSideEffects ==
    [][last'.op = "read" => meshes' = meshes]_vars

C9_Witness ==
    /\ last.op = "read"
    /\ nreads = 3
    /\ meshes[1].sub = 2
    /\ HasTime(1)
    /\ \A n \in PropertyNames :
          meshes[1].dict[Backing(n)] = Subdomain(2, n)

====
